---- MODULE Spec2Model ----
(***************************************************************************)
(* Model of LLMPlugin.py: a Sublime Text plugin that sends each selected   *)
(* region to a language-model HTTP API from a worker thread and replaces   *)
(* the region with the answer through a zero-delay deferred callback.      *)
(*                                                                         *)
(* Threads: the UI thread (commands, panel callbacks, deferred callbacks)  *)
(* and one worker thread per request.  Text is a sequence of characters,   *)
(* an optional value is a sequence of length 0 (None) or 1.                *)
(***************************************************************************)
EXTENDS Integers, Sequences, FiniteSets, TLC

\* ------------------------------------------------------------------ bounds
\* worker threads started over a whole behaviour
MaxReq == 2
\* regions in one selection
MaxRegions == 2
\* iterations of the spinner loop while one thread is alive
MaxPolls == 1
\* settings commands issued by the user
MaxWrites == 1

\* --------------------------------------------------------- program constants
\* len(frames), show_loading_indicator
NFrames == 8
\* "max_tokens" of the Anthropic request
MaxTokens == 1024

None == <<>>
Some(x) == <<x>>

\* Faulty variant of Truthy: a test against None only ("is not None").
TruthyNotNone(o) == o # None

\* Python truthiness of an optional string: None and "" are falsy.
Truthy(o) == o # None /\ o[1] # <<>>

Min(x, y) == IF x <= y THEN x ELSE y
Max(x, y) == IF x <= y THEN y ELSE x

\* ------------------------------------------------------------------ base64
\* A key is a sequence of ASCII codes (str.encode / bytes.decode are the
\* identity on ASCII); an encoded key is a sequence of base64 digits, 0..63,
\* with Pad for '='.
Pad == 64

RECURSIVE B64Encode(_)
B64Encode(bytes) ==
    IF Len(bytes) = 0 THEN <<>>
    ELSE IF Len(bytes) = 1 THEN
        LET n == bytes[1] * 65536
        IN  <<n \div 262144, (n \div 4096) % 64, Pad, Pad>>
    ELSE IF Len(bytes) = 2 THEN
        LET n == bytes[1] * 65536 + bytes[2] * 256
        IN  <<n \div 262144, (n \div 4096) % 64, (n \div 64) % 64, Pad>>
    ELSE
        LET n == bytes[1] * 65536 + bytes[2] * 256 + bytes[3]
        IN  <<n \div 262144, (n \div 4096) % 64, (n \div 64) % 64, n % 64>>
            \o B64Encode(SubSeq(bytes, 4, Len(bytes)))

RECURSIVE B64Decode(_)
B64Decode(digits) ==
    IF Len(digits) < 4 THEN <<>>
    ELSE
        LET d == SubSeq(digits, 1, 4)
            v(i) == IF d[i] = Pad THEN 0 ELSE d[i]
            n == v(1) * 262144 + v(2) * 4096 + v(3) * 64 + v(4)
            out == IF d[3] = Pad THEN <<n \div 65536>>
                   ELSE IF d[4] = Pad THEN <<n \div 65536, (n \div 256) % 256>>
                   ELSE <<n \div 65536, (n \div 256) % 256, n % 256>>
        IN  out \o B64Decode(SubSeq(digits, 5, Len(digits)))

encrypt(key) == B64Encode(key)
decrypt(encrypted_key) == B64Decode(encrypted_key)

\* ------------------------------------------------------------------ inputs
\* plaintext API keys the user may type: "sk", "k" and "" (rejected)
Keys == { <<115, 107>> }
KeyInputs == Keys \cup { <<>> }

Providers == {"openai", "anthropic"}
\* switch-provider panel
ProviderOptions == <<"OpenAI", "Anthropic">>
Lower(s) == IF s = "OpenAI" THEN "openai" ELSE "anthropic"

\* select-model panels
OpenAIModels == <<"gpt-4o-mini", "gpt-4o", "gpt-4">>
AnthropicModels == <<"claude-3.5-sonnet", "claude-3-sonnet", "claude-3-opus", "claude-3-haiku">>

InitDoc == <<"a", "b">>

\* Selection regions: offsets (a, b) into the document, a > b when the
\* selection was made backwards.
Region(a, b) == [a |-> a, b |-> b]
Begin(r) == Min(r.a, r.b)
End(r) == Max(r.a, r.b)
Empty(r) == r.a = r.b

\* The regions a selection is made of here: a caret at the start, the first
\* character and the last character.
Regions(d) ==
    { r \in { Region(a, b) : a \in 0..Len(d), b \in 0..Len(d) } :
        \/ r.a = 0 /\ r.b <= 1
        \/ r.b = Len(d) /\ r.a = r.b - 1 }

\* view.sel(): regions in document order that do not overlap; an empty
\* region (a caret) does not touch another region.
Selections(d) ==
    { s \in UNION { [1..n -> Regions(d)] : n \in 0..MaxRegions } :
        \A i \in 1..(Len(s) - 1) :
            \/ End(s[i]) < Begin(s[i + 1])
            \/ End(s[i]) = Begin(s[i + 1]) /\ ~Empty(s[i]) /\ ~Empty(s[i + 1]) }

\* (action, prompt) pairs the commands of the plugin pass to language_model:
\* a fixed action, and the dynamic prompt typed by the user.
Invocations ==
    { [action |-> "summarise", prompt |-> None],
      [action |-> "dynamic_prompt", prompt |-> Some(<<"p">>)] }

\* -------------------------------------------------------------------- JSON
\* A parsed JSON value is tagged with its Python type.
JObj(r) == [t |-> "dict", v |-> r]
JList(s) == [t |-> "list", v |-> s]
JStr(s) == [t |-> "str", v |-> s]

Key(s) == [k |-> "str", s |-> s, i |-> 0]
Idx(i) == [k |-> "int", s |-> "", i |-> i]

\* Response bodies the server may send.
Responses ==
    << JObj([choices |-> JList(<< JObj([message |-> JObj([content |-> JStr(<<"X">>)])]) >>)]),
       JObj([content |-> JList(<< JObj([text |-> JStr(<<"Y", "Z">>)]) >>)]),
       JObj([choices |-> JList(<<>>)]) >>

\* What urlopen and json.loads can produce for one request: a transport
\* failure, a body that is not JSON, or one of the bodies above.
Outcomes ==
    { [kind |-> "URLError", body |-> 0], [kind |-> "ValueError", body |-> 0] }
    \cup { [kind |-> "json", body |-> k] : k \in 1..Len(Responses) }

Raise(exc) == [ok |-> FALSE, val |-> JStr(<<>>), exc |-> exc]
Return(val) == [ok |-> TRUE, val |-> val, exc |-> ""]

\* Python's j[key].
GetItem(j, key) ==
    IF j.t = "dict" THEN
        IF key.k = "str" /\ key.s \in DOMAIN j.v THEN Return(j.v[key.s])
        ELSE Raise("KeyError")
    ELSE IF key.k = "str" THEN Raise("TypeError")
    ELSE IF key.i < Len(j.v) THEN
        Return(IF j.t = "list" THEN j.v[key.i + 1] ELSE JStr(<<j.v[key.i + 1]>>))
    ELSE Raise("IndexError")

RECURSIVE Walk(_, _)
Walk(j, path) ==
    IF Len(path) = 0 THEN Return(j)
    ELSE LET g == GetItem(j, Head(path))
         IN  IF g.ok THEN Walk(g.val, Tail(path)) ELSE g

\* response_data["choices"][0]["message"]["content"] and
\* response_data["content"][0]["text"]
ResultPath(selected_provider) ==
    IF selected_provider = "openai"
    THEN <<Key("choices"), Idx(0), Key("message"), Key("content")>>
    ELSE <<Key("content"), Idx(0), Key("text")>>

ExtractResult(selected_provider, response_data) ==
    Walk(response_data, ResultPath(selected_provider))

\* The except clause that handles an exception raised in the try block.
Classify(exc) ==
    IF exc = "URLError" THEN "API request failed"
    ELSE IF exc = "KeyError" THEN "Unexpected API response format"
    ELSE "An unexpected error occurred"

\* ------------------------------------------------------------------ prompt
Template(action) ==
    IF action = "rewrite_casual" THEN Some("Rewrite the following text in a casual tone. Use Australian Spelling. Respond only with the updated text.: ")
    ELSE IF action = "rewrite_professional" THEN Some("Rewrite the following text in a professional tone. Use Australian Spelling. Respond only with the updated text.: ")
    ELSE IF action = "summarise" THEN Some("Summarise the following text. Use Australian Spelling. Respond only with the updated text.: ")
    ELSE IF action = "expand" THEN Some("Expand on the following text. Use Australian Spelling. Respond only with the updated text.: ")
    ELSE IF action = "paraphrase" THEN Some("Paraphrase the following text. Use Australian Spelling. Respond only with the updated text.: ")
    ELSE IF action = "correct_grammar" THEN Some("Correct the grammar in the following text. Use Australian Spelling. Respond only with the updated text.: ")
    ELSE IF action = "dynamic_prompt" THEN <<>>
    ELSE Some("Process the following text. : ")

get_prompt(action, text) == Template(action) \o text

\* ---------------------------------------------------------------- document
\* view.substr(region)
Substr(d, r) == SubSeq(d, Begin(r) + 1, End(r))

\* Faulty variant of ViewReplace: the end offset taken as the last character
\* replaced, not the offset after it.
ViewReplaceInclusive(d, a, b, text) ==
    LET lo == Min(Min(a, b), Len(d))
        hi == Min(Max(a, b) + 1, Len(d))
    IN  SubSeq(d, 1, lo) \o text \o SubSeq(d, hi + 1, Len(d))

\* view.replace(edit, sublime.Region(a, b), text): the region is ordered and
\* clamped to the buffer.
ViewReplace(d, a, b, text) ==
    LET lo == Min(Min(a, b), Len(d))
        hi == Min(Max(a, b), Len(d))
    IN  SubSeq(d, 1, lo) \o text \o SubSeq(d, hi + 1, Len(d))

\* ------------------------------------------------------------------- state
VARIABLES
    settings,   \* LLMPlugin.sublime-settings
    doc,        \* the view's buffer
    ui,         \* the UI thread: the command it is in and its locals
    workers,    \* the worker threads started so far, in start order
    timeouts,   \* zero-delay callbacks queued by sublime.set_timeout, FIFO
    log,        \* llm_plugin.log
    status,     \* the status bar
    applied,    \* requests whose replacement has been applied, in order
    writes      \* settings commands so far

vars == <<settings, doc, ui, workers, timeouts, log, status, applied,
          writes>>

Settings(p, k1, k2) ==
    [selected_provider |-> p, openai_api_key |-> k1, anthropic_api_key |-> k2,
     openai_model |-> "gpt-3.5-turbo", anthropic_model |-> "claude-2"]

\* Settings after plugin_loaded: provider and models are set; the provider
\* and the stored keys are whatever the settings file holds.
InitSettings ==
    { Settings("openai", Some(encrypt(<<115, 107>>)), None),
      Settings("anthropic", Some(<<>>), Some(encrypt(<<107>>))),
      Settings("mistral", Some(encrypt(<<115, 107>>)), Some(encrypt(<<107>>))) }

\* The UI thread outside any command.  pc: "idle", "loop" (run, at the top
\* of the for loop), "poll" (run, inside show_loading_indicator), "error"
\* (inside sublime.error_message, which returns when the dialog is
\* dismissed).  sel, idx, base and events record the for loop of run: the
\* selection, the index of the current region, the number of threads that
\* existed when run began, and what each region processed so far gave.
IdleUI ==
    [pc |-> "idle", cmd |-> "", msg |-> "", action |-> "", prompt |-> None,
     api_key |-> None, api_url |-> "", selected_provider |-> "", model |-> "",
     sel |-> <<>>, idx |-> 0, thread |-> 0, i |-> 0, base |-> 0,
     events |-> <<>>]

Init ==
    /\ settings \in InitSettings
    /\ doc = InitDoc
    /\ ui = IdleUI
    /\ workers = <<>>
    /\ timeouts = <<>>
    /\ log = <<>>
    /\ status = [msg |-> "", frame |-> 0]
    /\ applied = <<>>
    /\ writes = 0

\* ----------------------------------------------- LanguageModelCommand.run
\* Lines 29-41: provider, key, endpoint and model read from the settings.
ReadConfig(s) ==
    IF s.selected_provider = "openai" THEN
        [known |-> TRUE,
         api_key |-> IF Truthy(s.openai_api_key)
                     THEN Some(decrypt(s.openai_api_key[1])) ELSE None,
         api_url |-> "https://api.openai.com/v1/chat/completions",
         model |-> s.openai_model]
    ELSE IF s.selected_provider = "anthropic" THEN
        [known |-> TRUE,
         api_key |-> IF Truthy(s.anthropic_api_key)
                     THEN Some(decrypt(s.anthropic_api_key[1])) ELSE None,
         api_url |-> "https://api.anthropic.com/v1/messages",
         model |-> s.anthropic_model]
    ELSE [known |-> FALSE, api_key |-> None, api_url |-> "", model |-> ""]

NonEmpty(sel) == { i \in 1..Len(sel) : ~Empty(sel[i]) }

\* sublime.error_message called on the UI thread by command cmd.
ErrorMessage(cmd, msg) ==
    [IdleUI EXCEPT !.pc = "error", !.cmd = cmd, !.msg = msg]

\* run up to the for loop (lines 29-51 and 61-62).
RunBegin(action, prompt, sel) ==
    /\ ui.pc = "idle"
    /\ Len(workers) + Cardinality(NonEmpty(sel)) <= MaxReq
    /\ LET cfg == ReadConfig(settings)
       IN  IF ~cfg.known THEN
               /\ ui' = ErrorMessage("language_model", "Unknown LLM")
               /\ UNCHANGED status
           ELSE IF ~Truthy(cfg.api_key) THEN
               /\ ui' = ErrorMessage("language_model", "API key is not set")
               /\ UNCHANGED status
           ELSE IF Len(sel) = 0 THEN
               /\ status' = [msg |-> "No selection found", frame |-> 0]
               /\ ui' = IdleUI
           ELSE
               /\ ui' = [IdleUI EXCEPT !.pc = "loop", !.cmd = "language_model",
                                       !.action = action, !.prompt = prompt,
                                       !.sel = sel, !.idx = 1,
                                       !.base = Len(workers),
                                       !.api_key = cfg.api_key,
                                       !.api_url = cfg.api_url,
                                       !.selected_provider = settings.selected_provider,
                                       !.model = cfg.model]
               /\ UNCHANGED status
    /\ UNCHANGED <<settings, doc, workers, timeouts, log, applied, writes>>

\* The user invokes one of the commands that run language_model on the
\* current selection.
LanguageModel ==
    /\ ui.pc = "idle"
    /\ \E inv \in Invocations : \E sel \in Selections(doc) :
           RunBegin(inv.action, inv.prompt, sel)

\* The user dismisses an error dialog opened on the UI thread; the command
\* that opened it returns.
DismissUI ==
    /\ ui.pc = "error"
    /\ ui' = IdleUI
    /\ UNCHANGED <<settings, doc, workers, timeouts, log, status, applied,
                   writes>>

\* Thread(target=self.process_text, args=(...)) before it runs.  posts and
\* shown count the thread's POSTs and error dialogs.
NewThread(text, action, api_key, api_url, region, selected_provider, model, prompt) ==
    [pc |-> "start", text |-> text, action |-> action, api_key |-> api_key,
     api_url |-> api_url, region |-> region,
     selected_provider |-> selected_provider, model |-> model,
     prompt |-> prompt, headers |-> None, data |-> None,
     outcome |-> [kind |-> "", body |-> 0], posts |-> 0, shown |-> 0]

\* A thread whose process_text has returned: its locals are gone.
Terminated(w) ==
    [NewThread(<<>>, "", <<>>, "", Region(0, 0), "", "", None)
        EXCEPT !.pc = "done", !.posts = w.posts, !.shown = w.shown]

\* thread.is_alive()
IsAlive(thread) == workers[thread].pc # "done"

\* Faulty variant of RunLoop: no test of region.empty(), a thread for every region.
RunLoopNoEmptyTest ==
    /\ ui.pc = "loop"
    /\ IF ui.idx > Len(ui.sel) THEN
           /\ ui' = IdleUI
           /\ UNCHANGED <<workers, status>>
       ELSE LET region == ui.sel[ui.idx] IN
           /\ workers' = Append(workers,
                  NewThread(Substr(doc, region), ui.action, ui.api_key[1],
                            ui.api_url, region, ui.selected_provider,
                            ui.model, ui.prompt))
           /\ ui' = [ui EXCEPT !.pc = "poll", !.thread = Len(workers) + 1,
                               !.i = 0,
                               !.events = Append(@, [thread |-> Len(workers) + 1,
                                                     notice |-> ""])]
           /\ UNCHANGED status
    /\ UNCHANGED <<settings, doc, timeouts, log, applied, writes>>

\* One iteration of the for loop up to the call of show_loading_indicator
\* (lines 52-60), or the return of run when the selection is exhausted.
RunLoop ==
    /\ ui.pc = "loop"
    /\ IF ui.idx > Len(ui.sel) THEN
           /\ ui' = IdleUI
           /\ UNCHANGED <<workers, status>>
       ELSE LET region == ui.sel[ui.idx] IN
           IF ~Empty(region) THEN
               /\ workers' = Append(workers,
                      NewThread(Substr(doc, region), ui.action, ui.api_key[1],
                                ui.api_url, region, ui.selected_provider,
                                ui.model, ui.prompt))
               /\ ui' = [ui EXCEPT !.pc = "poll", !.thread = Len(workers) + 1,
                                   !.i = 0,
                                   !.events = Append(@, [thread |-> Len(workers) + 1,
                                                         notice |-> ""])]
               /\ UNCHANGED status
           ELSE
               /\ status' = [msg |-> "No text selected", frame |-> 0]
               /\ ui' = [ui EXCEPT !.idx = @ + 1,
                                   !.events = Append(@, [thread |-> 0,
                                                         notice |-> "No text selected"])]
               /\ UNCHANGED workers
    /\ UNCHANGED <<settings, doc, timeouts, log, applied, writes>>

\* Faulty variant of Poll: show_loading_indicator returns without waiting for the
\* thread.
PollNoWait ==
    /\ ui.pc = "poll"
    /\ status' = [msg |-> "Processing complete", frame |-> 0]
    /\ ui' = [ui EXCEPT !.pc = "loop", !.idx = @ + 1, !.thread = 0, !.i = 0]
    /\ UNCHANGED <<settings, doc, workers, timeouts, log, applied, writes>>

\* show_loading_indicator: one test of the while condition and, while the
\* thread is alive, one iteration of the body (lines 133-140).  The callback
\* queued at line 138 is lambda: None: running it changes nothing, and the
\* queue of these callbacks is not part of the state.
Poll ==
    /\ ui.pc = "poll"
    /\ IF IsAlive(ui.thread) THEN
           /\ ui.i < MaxPolls
           /\ status' = [msg |-> "Processing", frame |-> ui.i % NFrames]
           /\ ui' = [ui EXCEPT !.i = @ + 1]
       ELSE
           /\ status' = [msg |-> "Processing complete", frame |-> 0]
           /\ ui' = [ui EXCEPT !.pc = "loop", !.idx = @ + 1, !.thread = 0, !.i = 0]
    /\ UNCHANGED <<settings, doc, workers, timeouts, log, applied, writes>>

\* ------------------------------------------- LanguageModelCommand.process_text
\* Lines 68-90.
Headers(selected_provider, api_key) ==
    IF selected_provider = "openai"
    THEN [ContentType |-> "application/json", Authorization |-> <<"Bearer ">> \o api_key]
    ELSE [ContentType |-> "application/json", x_api_key |-> api_key,
          max_tokens |-> MaxTokens]

Data(selected_provider, model, prompt) ==
    IF selected_provider = "openai"
    THEN [model |-> model,
          messages |-> << [role |-> "user", content |-> prompt] >>]
    ELSE [model |-> "claude-3-5-sonnet-20240620",
          max_tokens |-> MaxTokens,
          system |-> "You are an English language expert.",
          messages |-> << [role |-> "user",
                           content |-> << [type |-> "text", text |-> prompt] >>] >>]

\* Lines 65-96: the prompt, the request, and urlopen sending the POST.
WorkerPost(id) ==
    /\ id \in 1..Len(workers)
    /\ workers[id].pc = "start"
    /\ LET w == workers[id]
           prompt == IF w.prompt = None THEN get_prompt(w.action, w.text)
                     ELSE w.prompt[1]
       IN  workers' = [workers EXCEPT ![id] =
               [w EXCEPT !.pc = "waiting",
                         !.headers = Some(Headers(w.selected_provider, w.api_key)),
                         !.data = Some(Data(w.selected_provider, w.model, prompt)),
                         !.posts = @ + 1]]
    /\ UNCHANGED <<settings, doc, ui, timeouts, log, status, applied, writes>>

\* urlopen returns the response or raises (line 96).
WorkerReceive(id, outcome) ==
    /\ id \in 1..Len(workers)
    /\ workers[id].pc = "waiting"
    /\ workers' = [workers EXCEPT ![id] = [@ EXCEPT !.pc = "received",
                                                    !.outcome = outcome]]
    /\ UNCHANGED <<settings, doc, ui, timeouts, log, status, applied, writes>>

\* What the try block makes of an outcome: the result text or the exception.
TryBlock(selected_provider, outcome) ==
    IF outcome.kind # "json" THEN Raise(outcome.kind)
    ELSE ExtractResult(selected_provider, Responses[outcome.body])

\* Faulty variant of WorkerHandle: the worker replaces the text itself instead of
\* queueing the replacement.
WorkerHandleDirect(id) ==
    /\ id \in 1..Len(workers)
    /\ workers[id].pc = "received"
    /\ LET w == workers[id]
           r == TryBlock(w.selected_provider, w.outcome)
       IN  IF r.ok THEN
               /\ doc' = ViewReplace(doc, w.region.a, w.region.b, r.val.v)
               /\ applied' = Append(applied, id)
               /\ workers' = [workers EXCEPT ![id] = Terminated(w)]
               /\ UNCHANGED log
           ELSE
               /\ log' = Append(log, [msg |-> Classify(r.exc), req |-> id])
               /\ workers' = [workers EXCEPT ![id] =
                      [w EXCEPT !.pc = "error", !.shown = @ + 1]]
               /\ UNCHANGED <<doc, applied>>
    /\ UNCHANGED <<settings, ui, timeouts, status, writes>>

\* Faulty variant of WorkerHandle: a failed request is sent again.
WorkerHandleRetry(id) ==
    /\ id \in 1..Len(workers)
    /\ workers[id].pc = "received"
    /\ LET w == workers[id]
           r == TryBlock(w.selected_provider, w.outcome)
       IN  IF r.ok THEN
               /\ timeouts' = Append(timeouts,
                      [region |-> w.region, text |-> r.val.v, req |-> id])
               /\ workers' = [workers EXCEPT ![id] = Terminated(w)]
           ELSE
               /\ workers' = [workers EXCEPT ![id] =
                      [w EXCEPT !.pc = IF w.posts < 2 THEN "start" ELSE "done"]]
               /\ UNCHANGED timeouts
    /\ UNCHANGED <<settings, doc, ui, log, status, applied, writes>>

\* Lines 97-116: the body is parsed and the result handed to the UI thread
\* by set_timeout, after which process_text returns; or the failure is
\* logged and sublime.error_message is called on this thread.
WorkerHandle(id) ==
    /\ id \in 1..Len(workers)
    /\ workers[id].pc = "received"
    /\ LET w == workers[id]
           r == TryBlock(w.selected_provider, w.outcome)
       IN  IF r.ok THEN
               /\ timeouts' = Append(timeouts,
                      [region |-> w.region, text |-> r.val.v, req |-> id])
               /\ workers' = [workers EXCEPT ![id] = Terminated(w)]
               /\ UNCHANGED log
           ELSE
               /\ log' = Append(log, [msg |-> Classify(r.exc), req |-> id])
               /\ workers' = [workers EXCEPT ![id] =
                      [w EXCEPT !.pc = "error", !.shown = @ + 1]]
               /\ UNCHANGED timeouts
    /\ UNCHANGED <<settings, doc, ui, status, applied, writes>>

\* The user dismisses the error dialog a worker opened; process_text returns.
DismissWorker(id) ==
    /\ id \in 1..Len(workers)
    /\ workers[id].pc = "error"
    /\ workers' = [workers EXCEPT ![id] = Terminated(workers[id])]
    /\ UNCHANGED <<settings, doc, ui, timeouts, log, status, applied, writes>>

\* --------------------------------------------------------- deferred callbacks
\* The queued lambda runs replace_text, which runs the replace_text command
\* (lines 103, 118-119, 142-144).
ReplaceText ==
    /\ ui.pc = "idle"
    /\ Len(timeouts) > 0
    /\ LET t == Head(timeouts)
       IN  /\ doc' = ViewReplace(doc, t.region.a, t.region.b, t.text)
           /\ applied' = Append(applied, t.req)
    /\ timeouts' = Tail(timeouts)
    /\ UNCHANGED <<settings, ui, workers, log, status, writes>>

\* ------------------------------------------------------------ settings commands
\* SetApiKeyCommand: the quick panel's index, then the typed key.
SetApiKey(index, api_key) ==
    /\ ui.pc = "idle"
    /\ writes < MaxWrites
    /\ writes' = writes + 1
    /\ IF Len(api_key) > 0 THEN
           /\ settings' = IF index = 0
                          THEN [settings EXCEPT !.openai_api_key = Some(encrypt(api_key))]
                          ELSE [settings EXCEPT !.anthropic_api_key = Some(encrypt(api_key))]
           /\ status' = [msg |-> "updated successfully", frame |-> 0]
           /\ UNCHANGED ui
       ELSE
           /\ ui' = ErrorMessage("set_api_key", "API key cannot be empty")
           /\ UNCHANGED <<settings, status>>
    /\ UNCHANGED <<doc, workers, timeouts, log, applied>>

\* SelectModelCommand: the options of the current provider, then the index.
SelectModel(index) ==
    /\ ui.pc = "idle"
    /\ writes < MaxWrites
    /\ writes' = writes + 1
    /\ IF settings.selected_provider = "openai" THEN
           /\ index < Len(OpenAIModels)
           /\ settings' = [settings EXCEPT !.openai_model = OpenAIModels[index + 1]]
           /\ status' = [msg |-> "Selected model", frame |-> 0]
           /\ UNCHANGED ui
       ELSE IF settings.selected_provider = "anthropic" THEN
           /\ index < Len(AnthropicModels)
           /\ settings' = [settings EXCEPT !.anthropic_model = AnthropicModels[index + 1]]
           /\ status' = [msg |-> "Selected model", frame |-> 0]
           /\ UNCHANGED ui
       ELSE
           /\ ui' = ErrorMessage("select_model", "Unknown LLM")
           /\ UNCHANGED <<settings, status>>
    /\ UNCHANGED <<doc, workers, timeouts, log, applied>>

\* SwitchProviderCommand.
SwitchProvider(index) ==
    /\ ui.pc = "idle"
    /\ writes < MaxWrites
    /\ writes' = writes + 1
    /\ settings' = [settings EXCEPT !.selected_provider = Lower(ProviderOptions[index + 1])]
    /\ status' = [msg |-> "Switched", frame |-> 0]
    /\ UNCHANGED <<doc, ui, workers, timeouts, log, applied>>

Next ==
    \/ LanguageModel
    \/ DismissUI
    \/ RunLoop
    \/ Poll
    \/ \E id \in 1..MaxReq : WorkerPost(id)
    \/ \E id \in 1..MaxReq : \E outcome \in Outcomes : WorkerReceive(id, outcome)
    \/ \E id \in 1..MaxReq : WorkerHandle(id)
    \/ \E id \in 1..MaxReq : DismissWorker(id)
    \/ ReplaceText
    \/ \E index \in {0, 1} : \E api_key \in KeyInputs : SetApiKey(index, api_key)
    \/ \E index \in {1} : SelectModel(index)
    \/ \E index \in {0, 1} : SwitchProvider(index)

Spec == Init /\ [][Next]_vars

\* ================================================================== claims
\* A step taken by worker thread id.
WorkerStep(id) == id <= Len(workers) /\ workers'[id] # workers[id]

\* The entries of a sequence of records that belong to request id.
CountReq(seq, id) == Cardinality({ k \in 1..Len(seq) : seq[k].req = id })

CountApplied(id) == Cardinality({ k \in 1..Len(applied) : applied[k] = id })

\* C1: the document changes only in a step of the UI thread that runs the
\* callback at the head of the set_timeout queue; a step of a worker thread
\* leaves the document as it is, and a worker that has a result only queues
\* the replacement.
C1_MutationOnUIThread ==
    [][ /\ \A id \in 1..MaxReq : WorkerStep(id) => doc' = doc
        /\ doc' # doc =>
              /\ ui.pc = "idle"
              /\ workers' = workers
              /\ Len(timeouts) > 0
              /\ timeouts' = Tail(timeouts)
        /\ \A id \in 1..MaxReq :
              (WorkerStep(id) /\ Len(timeouts') > Len(timeouts)) =>
                  /\ timeouts' = Append(timeouts, timeouts'[Len(timeouts')])
                  /\ timeouts'[Len(timeouts')].req = id ]_vars

\* A replacement queued by a worker has been applied by the UI thread and
\* has changed the document.
C1_Witness == Len(applied) > 0 /\ doc # InitDoc /\ ui.pc = "idle"

\* C2 (as claimed): while a worker is alive the UI thread is not inside run
\* waiting for it, having found it alive.
C2_RunDoesNotWait ==
    \A id \in 1..Len(workers) :
        IsAlive(id) => ~(ui.pc = "poll" /\ ui.thread = id /\ ui.i > 0)

\* The parsed body holds the path the provider's answer is read from.
HasPath(selected_provider, b) ==
    IF selected_provider = "openai" THEN
        /\ b.t = "dict" /\ "choices" \in DOMAIN b.v
        /\ b.v.choices.t = "list" /\ Len(b.v.choices.v) >= 1
        /\ b.v.choices.v[1].t = "dict" /\ "message" \in DOMAIN b.v.choices.v[1].v
        /\ b.v.choices.v[1].v.message.t = "dict"
        /\ "content" \in DOMAIN b.v.choices.v[1].v.message.v
    ELSE
        /\ b.t = "dict" /\ "content" \in DOMAIN b.v
        /\ b.v.content.t = "list" /\ Len(b.v.content.v) >= 1
        /\ b.v.content.v[1].t = "dict" /\ "text" \in DOMAIN b.v.content.v[1].v

\* Worker id holds a parsed body without the expected path.
Malformed(id) ==
    /\ workers[id].pc = "received"
    /\ workers[id].outcome.kind = "json"
    /\ ~HasPath(workers[id].selected_provider, Responses[workers[id].outcome.body])

\* C3 (as claimed): a worker that handles a body without the expected path
\* logs and shows "Unexpected API response format" and queues no replacement;
\* the document stays as it is.
C3_MalformedIsFormatFailure ==
    [][ \A id \in 1..MaxReq :
          (id <= Len(workers) /\ Malformed(id) /\ WorkerStep(id)) =>
              /\ log' = Append(log, [msg |-> "Unexpected API response format",
                                     req |-> id])
              /\ workers'[id].shown = 1
              /\ timeouts' = timeouts
              /\ doc' = doc ]_vars

\* The provider is unknown, or the key stored for it is missing or empty.
BadConfig(s) ==
    \/ s.selected_provider \notin Providers
    \/ s.selected_provider = "openai"
          /\ (s.openai_api_key = None \/ s.openai_api_key = Some(<<>>))
    \/ s.selected_provider = "anthropic"
          /\ (s.anthropic_api_key = None \/ s.anthropic_api_key = Some(<<>>))

\* C4: with an unknown provider or a missing or empty key, a step the idle
\* UI thread takes outside the settings commands starts no thread and shows
\* no status notice, and if it enters a command, that is run opening its
\* error dialog on the UI thread, with nothing queued and the document left
\* alone; when the dialog is dismissed run returns.
C4_BadConfigReportedBeforeAnyThread ==
    [][ /\ (ui.pc = "idle" /\ BadConfig(settings) /\ writes' = writes) =>
              /\ workers' = workers
              /\ status' = status
              /\ log' = log
              /\ ui' # ui =>
                    /\ ui'.pc = "error"
                    /\ ui'.cmd = "language_model"
                    /\ ui'.msg = IF settings.selected_provider \in Providers
                                 THEN "API key is not set" ELSE "Unknown LLM"
                    /\ timeouts' = timeouts
                    /\ doc' = doc
        /\ (ui.pc = "error" /\ ui.cmd = "language_model") =>
              /\ ui' = ui \/ ui' = IdleUI
              /\ Len(workers') = Len(workers)
              /\ timeouts' = timeouts
              /\ doc' = doc ]_vars

\* run reports the empty key stored for openai.
C4_Witness ==
    /\ ui.pc = "error" /\ ui.cmd = "language_model"
    /\ ui.msg = "API key is not set"
    /\ settings.selected_provider = "openai"
    /\ settings.openai_api_key = Some(<<>>)

\* The regions among the first n of sel that are not empty.
Spawning(sel, n) == { k \in 1..n : sel[k].a # sel[k].b }

\* C5: while run is in its loop, the regions processed so far gave one
\* thread for each non-empty region, in order, and the notice "No text
\* selected" and no thread for each empty one; the thread being waited for
\* carries the text and the bounds of its region; an empty selection gives
\* only "No selection found".
C5_LoopState ==
    ui.pc \in {"loop", "poll"} =>
        LET n == Len(ui.events) IN
        /\ n = IF ui.pc = "poll" THEN ui.idx ELSE ui.idx - 1
        /\ n <= Len(ui.sel)
        /\ Len(workers) = ui.base + Cardinality(Spawning(ui.sel, n))
        /\ \A k \in 1..n :
              IF ui.sel[k].a = ui.sel[k].b
              THEN ui.events[k] = [thread |-> 0, notice |-> "No text selected"]
              ELSE ui.events[k] = [thread |-> ui.base + Cardinality(Spawning(ui.sel, k)),
                                   notice |-> ""]
        /\ (ui.pc = "loop" /\ n > 0 /\ ui.sel[n].a = ui.sel[n].b) =>
              status.msg = "No text selected"
        /\ ui.pc = "poll" =>
              /\ ui.thread = Len(workers)
              /\ ui.sel[ui.idx].a # ui.sel[ui.idx].b
              /\ IsAlive(ui.thread) =>
                    /\ workers[ui.thread].region = ui.sel[ui.idx]
                    /\ workers[ui.thread].text =
                          SubSeq(doc, Min(ui.sel[ui.idx].a, ui.sel[ui.idx].b) + 1,
                                      Max(ui.sel[ui.idx].a, ui.sel[ui.idx].b))

C5_OneThreadPerNonEmptyRegion ==
    /\ []C5_LoopState
    /\ [][ \A inv \in Invocations :
             (RunBegin(inv.action, inv.prompt, <<>>) /\ ~BadConfig(settings)) =>
                 /\ status'.msg = "No selection found"
                 /\ ui' = IdleUI
                 /\ workers' = workers
                 /\ timeouts' = timeouts
                 /\ doc' = doc ]_vars

\* run has gone through a selection of an empty and a non-empty region: one
\* notice, one thread.
C5_Witness ==
    /\ ui.pc = "loop" /\ ui.idx > Len(ui.sel) /\ Len(ui.sel) = 2
    /\ ui.sel[1].a = ui.sel[1].b /\ ui.sel[2].a # ui.sel[2].b
    /\ Len(workers) = ui.base + 1

\* C6 (as claimed): a worker logs each failure, and no worker opens an
\* error dialog itself.
C6_DialogDeferred ==
    \A id \in 1..Len(workers) :
        /\ workers[id].pc \in {"error", "done"} =>
              CountReq(log, id) + CountReq(timeouts, id) + CountApplied(id) = 1
        /\ workers[id].pc # "error"
        /\ workers[id].shown = 0

\* The model name the settings hold for the selected provider.
SettingsModel(s) ==
    IF s.selected_provider = "openai" THEN s.openai_model ELSE s.anthropic_model

\* C7 (as claimed): the body of a request in flight names the model the
\* settings hold for the selected provider.
C7_BodyModelIsSettingsModel ==
    \A id \in 1..Len(workers) :
        workers[id].pc \in {"waiting", "received"} =>
            workers[id].data[1].model = SettingsModel(settings)

\* C8: a thread sends one POST, and ends with exactly one of a queued
\* replacement and a reported failure (a log entry and a dialog); before
\* that it has done neither; once it has queued its replacement it is
\* terminated, once it has reported it can only terminate, and a terminated
\* thread does nothing more.
C8_State ==
    \A id \in 1..Len(workers) :
        LET w == workers[id]
            scheduled == CountReq(timeouts, id) + CountApplied(id)
            reported == CountReq(log, id)
        IN  /\ w.posts = IF w.pc = "start" THEN 0 ELSE 1
            /\ w.pc \in {"start", "waiting", "received"} =>
                  scheduled = 0 /\ reported = 0 /\ w.shown = 0
            /\ w.pc \in {"error", "done"} =>
                  scheduled + reported = 1 /\ w.shown = reported
            /\ scheduled = 1 => w.pc = "done"

C8_ExactlyOnce ==
    /\ []C8_State
    /\ [][ \A id \in 1..MaxReq : id <= Len(workers) =>
             /\ workers[id].pc = "error" => workers'[id].pc \in {"error", "done"}
             /\ workers[id].pc = "done" => workers'[id] = workers[id] ]_vars

\* Both outcomes have happened: one thread queued its replacement, another
\* reported its failure, and both are terminated.
C8_Witness ==
    /\ Len(workers) = 2
    /\ workers[1].pc = "done" /\ workers[2].pc = "done"
    /\ CountReq(timeouts, 1) + CountApplied(1) = 1
    /\ CountReq(log, 2) = 1

\* C9: the callback at the head of the queue replaces the characters
\* between the offsets captured at dispatch (ordered, and cut to the length
\* of the document as it is now) with the result: what is before and after
\* them stays; and a worker queues the replacement with the region it was
\* started with.
C9_ReplaceExactRange ==
    [][ /\ applied' # applied =>
              LET t == Head(timeouts)
                  p == Min(Min(t.region.a, t.region.b), Len(doc))
                  q == Min(Max(t.region.a, t.region.b), Len(doc))
                  n == Len(t.text)
              IN  /\ Len(doc') = Len(doc) - (q - p) + n
                  /\ \A i \in 1..p : doc'[i] = doc[i]
                  /\ \A j \in 1..n : doc'[p + j] = t.text[j]
                  /\ \A i \in (q + 1)..Len(doc) : doc'[i - (q - p) + n] = doc[i]
        /\ \A id \in 1..MaxReq :
              (WorkerStep(id) /\ Len(timeouts') > Len(timeouts)) =>
                  timeouts'[Len(timeouts')].region = workers[id].region ]_vars

\* Two regions of one invocation, "a" and "b" of "ab", both answered "YZ":
\* the second replacement used the offsets (1, 2) captured before the first
\* one turned "ab" into "YZb", and replaced "Z".
C9_Witness == applied = <<1, 2>> /\ doc = <<"Y", "Y", "Z", "b">>

\* C10: at most one thread is alive, and it is the one run is waiting for; a
\* thread is started only when no other is alive; a replacement is applied
\* only when run has returned; replacements are queued and applied in the
\* order the requests were dispatched.
C10_State ==
    /\ Cardinality({ id \in 1..Len(workers) : IsAlive(id) }) <= 1
    /\ \A id \in 1..Len(workers) :
          IsAlive(id) => ui.pc = "poll" /\ ui.thread = id
    /\ LET order == applied \o [k \in 1..Len(timeouts) |-> timeouts[k].req]
       IN  \A j, k \in 1..Len(order) : j < k => order[j] < order[k]

C10_OneWorkerAtATime ==
    /\ []C10_State
    /\ [][ /\ Len(workers') > Len(workers) =>
                 \A id \in 1..Len(workers) : ~IsAlive(id)
           /\ applied' # applied =>
                 /\ ui.pc = "idle"
                 /\ applied' = Append(applied, Head(timeouts).req) ]_vars

\* The thread for the second region of an invocation is alive, the first
\* one has terminated and its replacement is still queued.
C10_Witness ==
    /\ ui.pc = "poll" /\ ui.base = 0 /\ ui.idx = 2
    /\ Len(workers) = 2 /\ ~IsAlive(1) /\ IsAlive(2)
    /\ Len(timeouts) = 1 /\ timeouts[1].req = 1
====
